---------------------------- MODULE Spec2Model ----------------------------
(***************************************************************************)
(* The recited mushaf: feed extraction, title parsing, text normalisation   *)
(* and the player: its search / filter memos, its start-up effects and its *)
(* playback handlers.                                                      *)
(*                                                                         *)
(* Text (titles, chapter and reciter labels, search queries) is a sequence *)
(* of characters.  A character is a one-element TLA+ string; an Arabic     *)
(* character is written by its Unicode name:                               *)
(*   "seen" U+0633   "waw" U+0648   "reh" U+0631   "teh_marbuta" U+0629    *)
(*   "alef" U+0627   "lam" U+0644   "qaf" U+0642   "yeh_hamza" U+0626      *)
(*   "ghain" U+063A  "yeh" U+064A   "meem" U+0645  "ain" U+0639            *)
(*   "feh" U+0641    "teh" U+062A   "heh" U+0647   "beh" U+0628            *)
(*   "alef_hamza_above" U+0623   "alef_hamza_below" U+0625                 *)
(*   "alef_madda" U+0622   "alef_maksura" U+0649   "fatha" U+064E          *)
(*   "superscript_alef" U+0670 (the dagger alef, a vowel sign)             *)
(* Opaque values (urls, ids, images, durations) are TLA+ strings.  The     *)
(* result of a regular-expression match is a sequence of length at most    *)
(* one: <<>> for null, <<g>> for a match whose first group is g.           *)
(***************************************************************************)
EXTENDS Integers, Sequences, FiniteSets, TLC

VARIABLES
    fullTitle,          \* parse: the raw title handed to the title parser
    parsed,             \* parse: <<>> or <<[surah, reciter]>>
    feed,               \* extract: what the network returns for RSS_URL
    extracted,          \* extract: <<>> or <<[status, items]>>
    episodes,           \* PodcastPlayer: useState episodes (the array's content)
    selectedReciter,    \* PodcastPlayer: useState selectedReciter
    reciterSearch,      \* PodcastPlayer: useState reciterSearch
    surahSearch,        \* PodcastPlayer: useState surahSearch
    reciters,           \* PodcastPlayer: value of the reciters memo
    filteredEpisodes,   \* PodcastPlayer: value of the filteredEpisodes memo
    pc,                 \* PodcastPlayer: "mount" before the first render, "fetching"
                        \* while loadEpisodes awaits the episodes, then "ready"
    rawText,            \* normalise: the text handed to normalizeArabic
    normalized,         \* normalise: the results of applying it once, then again
    initialEpisodes,    \* PodcastPlayer: the episodes prop (<<>> when there is none)
    currentId,          \* PodcastPlayer: useState currentId, <<>> for null
    isPlaying,          \* PodcastPlayer: useState isPlaying
    isLoadingAudio,     \* PodcastPlayer: useState isLoadingAudio
    currentTime,        \* PodcastPlayer: useState currentTime
    shouldSeekRef,      \* PodcastPlayer: shouldSeekRef.current, <<>> for null
    audioLoaded,        \* <audio>: loadeddata has fired for the present src
    podcastState,       \* localStorage "podcast_state": <<>> or <<[id, time]>>
    savedReciter,       \* localStorage "selectedReciter": <<>> or <<name>>
    urlReciter,         \* the reciter parameter of the page URL: <<>> or <<name>>
    opened              \* urlReciter and podcastState as they were when the page was opened

vars == <<fullTitle, parsed, feed, extracted, episodes, selectedReciter,
          reciterSearch, surahSearch, reciters, filteredEpisodes, pc,
          rawText, normalized, initialEpisodes, currentId, isPlaying,
          isLoadingAudio, currentTime, shouldSeekRef, audioLoaded,
          podcastState, savedReciter, urlReciter, opened>>

parseVars == <<fullTitle, parsed>>
extractVars == <<feed, extracted>>
playerVars == <<episodes, selectedReciter, reciterSearch, surahSearch,
                reciters, filteredEpisodes, pc>>
normalizeVars == <<rawText, normalized>>
playbackVars == <<currentId, isPlaying, isLoadingAudio, currentTime,
                  shouldSeekRef, audioLoaded, podcastState>>
browserVars == <<savedReciter, urlReciter>>
sessionVars == <<initialEpisodes, opened>>

----------------------------------------------------------------------------
(* Bounds of the model *)

MaxTokens == 5      \* a title is made of at most this many tokens
MaxItems == 2       \* <item> blocks in a feed handed to the extractor
MaxEpisodes == 3    \* <item> blocks in the feed the player is opened with

----------------------------------------------------------------------------
(* String primitives of the JavaScript runtime *)

\* White space as String.prototype.trim sees it (the members the model uses).
IsWhiteSpace(c) == c \in {" ", "\t", "\n"}

RECURSIVE TrimStart(_)
TrimStart(s) ==
    IF s # <<>> /\ IsWhiteSpace(Head(s)) THEN TrimStart(Tail(s)) ELSE s

RECURSIVE TrimEnd(_)
TrimEnd(s) ==
    IF s # <<>> /\ IsWhiteSpace(s[Len(s)])
    THEN TrimEnd(SubSeq(s, 1, Len(s) - 1))
    ELSE s

Trim(s) == TrimEnd(TrimStart(s))

\* s.startsWith(p) at position 1
StartsWith(s, p) == Len(p) <= Len(s) /\ SubSeq(s, 1, Len(p)) = p

\* s.includes(sub)
Includes(s, sub) ==
    \E i \in 1..(Len(s) - Len(sub) + 1) : SubSeq(s, i, i + Len(sub) - 1) = sub

LowerOf(c) ==
    CASE c = "S" -> "s"
      [] c = "U" -> "u"
      [] c = "R" -> "r"
      [] c = "A" -> "a"
      [] c = "H" -> "h"
      [] c = "T" -> "t"
      [] c = "X" -> "x"
      [] c = "Y" -> "y"
      [] OTHER -> c

ToLowerCase(s) == [i \in 1..Len(s) |-> LowerOf(s[i])]

\* parts.join(sep)
RECURSIVE Join(_, _)
Join(parts, sep) ==
    IF parts = <<>> THEN <<>>
    ELSE IF Len(parts) = 1 THEN parts[1]
    ELSE parts[1] \o sep \o Join(Tail(parts), sep)

\* s.split(sep) for a one-character separator: never empty, "" gives [""]
RECURSIVE SplitFrom(_, _, _)
SplitFrom(s, sep, cur) ==
    IF s = <<>> THEN <<cur>>
    ELSE IF Head(s) = sep THEN <<cur>> \o SplitFrom(Tail(s), sep, <<>>)
    ELSE SplitFrom(Tail(s), sep, Append(cur, Head(s)))

Split(s, sep) == SplitFrom(s, sep, <<>>)

\* parts.findIndex(pred), hits[i] being pred(parts[i]): the first index
\* (1-based) that satisfies pred, 0 for JavaScript's -1
FindIndex(hits) ==
    IF \E i \in 1..Len(hits) : hits[i]
    THEN CHOOSE i \in 1..Len(hits) : hits[i] /\ \A j \in 1..(i - 1) : ~hits[j]
    ELSE 0

----------------------------------------------------------------------------
(* Literals of the source *)

ArabicSurah == <<"seen", "waw", "reh", "teh_marbuta">>
EnglishSurah == <<"s", "u", "r", "a", "h">>
UnknownArabic ==
    <<"alef", "lam", "qaf", "alef", "reh", "yeh_hamza", " ",
      "ghain", "yeh", "reh", " ", "meem", "ain", "reh", "waw", "feh">>
UnknownEnglish == <<"U", "n", "k", "n", "o", "w", "n">>
GeneralRecitations ==
    <<"teh", "lam", "alef", "waw", "alef", "teh", " ",
      "ain", "alef", "meem", "teh_marbuta">>
UnknownTitle ==
    <<"U", "n", "k", "n", "o", "w", "n", " ", "T", "i", "t", "l", "e">>

----------------------------------------------------------------------------
(* Title parser: the body of the item loop that turns fullTitle into       *)
(* surah and reciter                                                       *)

\* fullTitle.replace(/ - /g, " | "): matches are found left to right and do
\* not overlap
RECURSIVE ReplaceDashes(_)
ReplaceDashes(s) ==
    IF s = <<>> THEN <<>>
    ELSE IF StartsWith(s, <<" ", "-", " ">>)
         THEN <<" ", "|", " ">> \o ReplaceDashes(SubSeq(s, 4, Len(s)))
         ELSE <<Head(s)>> \o ReplaceDashes(Tail(s))

\* fullTitle.split("|") alone: " - " is not a separator
TitlePartsBarOnly(title) ==
    LET raw == Split(title, "|")
    IN  [i \in 1..Len(raw) |-> Trim(raw[i])]

TitleParts(title) ==
    LET raw == Split(ReplaceDashes(title), "|")
    IN  [i \in 1..Len(raw) |-> Trim(raw[i])]

HasArabicMarker(p) == Includes(p, ArabicSurah)
HasEnglishMarker(p) == Includes(ToLowerCase(p), EnglishSurah)

ArabicSurahIndex(parts) ==
    FindIndex([i \in 1..Len(parts) |-> HasArabicMarker(parts[i])])
EnglishSurahIndex(parts) ==
    FindIndex([i \in 1..Len(parts) |-> HasEnglishMarker(parts[i])])

\* parts.filter((_, i) => i !== arabicSurahIndex && i !== englishSurahIndex)
RECURSIVE FilterOut(_, _, _, _)
FilterOut(parts, i, a, e) ==
    IF i > Len(parts) THEN <<>>
    ELSE (IF i # a /\ i # e THEN <<parts[i]>> ELSE <<>>)
         \o FilterOut(parts, i + 1, a, e)

\* parts.filter(...) with a marker segment left in: only the Arabic index is skipped
ReciterPartsArabicOnly(parts) ==
    FilterOut(parts, 1, ArabicSurahIndex(parts), ArabicSurahIndex(parts))

ReciterParts(parts) ==
    FilterOut(parts, 1, ArabicSurahIndex(parts), EnglishSurahIndex(parts))

\* the labels without the first-segment fallback
LabelsOfNoFallback(parts) ==
    LET a == ArabicSurahIndex(parts)
        e == EnglishSurahIndex(parts)
        surah1 == IF a # 0 THEN parts[a] ELSE <<>>
        surah2 == IF surah1 = <<>> /\ e # 0 THEN parts[e] ELSE surah1
    IN  [surah |-> surah2, reciter |-> Trim(Join(ReciterParts(parts), <<" ">>))]

\* surah and reciter after the two marker searches and the fallback, before
\* the "unknown reciter" grouping
LabelsOf(parts) ==
    LET a == ArabicSurahIndex(parts)
        e == EnglishSurahIndex(parts)
        surah1 == IF a # 0 THEN parts[a] ELSE <<>>
        surah2 == IF surah1 = <<>> /\ e # 0 THEN parts[e] ELSE surah1
        reciter1 == Trim(Join(ReciterParts(parts), <<" ">>))
    IN  IF surah2 = <<>> /\ Len(parts) > 0
        THEN [surah |-> parts[1], reciter |-> Join(Tail(parts), <<" ">>)]
        ELSE [surah |-> surah2, reciter |-> reciter1]

\* the grouping with the English literal forgotten
GroupUnknownArabicOnly(reciter) ==
    IF reciter = <<>> \/ reciter = UnknownArabic
    THEN GeneralRecitations
    ELSE reciter

\* if (!reciter || reciter === "..." || reciter === "Unknown") reciter = "..."
GroupUnknown(reciter) ==
    IF reciter = <<>> \/ reciter = UnknownArabic \/ reciter = UnknownEnglish
    THEN GeneralRecitations
    ELSE reciter

\* The locals of the loop body once the title is parsed: the segments, the
\* chapter label, the reciter label before the grouping, and the reciter.
ParseTitle(title) ==
    LET parts == TitleParts(title)
        l == LabelsOf(parts)
    IN  [parts |-> parts, surah |-> l.surah, label |-> l.reciter,
         reciter |-> GroupUnknown(l.reciter)]

----------------------------------------------------------------------------
(* Feed extractor: getPodcastEpisodes (the server action) and getFeed (the  *)
(* page), which share the loop over the <item> blocks.                     *)
(*                                                                         *)
(* The document served at RSS_URL is its header followed by its <item>     *)
(* blocks.  Each regular expression of the loop is modelled by what it     *)
(* captures: header.image and item.image are the href of an                *)
(* <itunes:image>, item.title the text of <title>, item.enclosure the url  *)
(* of <enclosure>, item.guid the text of <guid>, item.duration the text of *)
(* <itunes:duration>; <<>> where the pattern does not match.               *)

\* xmlText.match(/<itunes:image href="(.*?)"/): the first match in the whole
\* document, which is the header's when it has one and otherwise the first
\* item's that has one
RECURSIVE FirstItemImage(_)
FirstItemImage(items) ==
    IF items = <<>> THEN <<>>
    ELSE IF Head(items).image # <<>> THEN Head(items).image
    ELSE FirstItemImage(Tail(items))

ChannelImageMatch(doc) ==
    IF doc.image # <<>> THEN doc.image ELSE FirstItemImage(doc.items)

ChannelImage(doc) ==
    LET m == ChannelImageMatch(doc) IN IF m # <<>> THEN m[1] ELSE ""

\* titleMatch ? titleMatch[1] : "": a missing title read as the empty one
FullTitleOrEmpty(item) == IF item.title # <<>> THEN item.title[1] ELSE <<>>

FullTitle(item) == IF item.title # <<>> THEN item.title[1] ELSE UnknownTitle

\* the record built from one <item>; rnd is what Math.random().toString()
\* gives if it is called
EpisodeOf(item, channelImage, rnd) ==
    LET title == FullTitle(item)
        p == ParseTitle(title)
    IN  [id |-> IF item.guid # <<>> THEN item.guid[1] ELSE rnd,
         title |-> title,
         surah |-> p.surah,
         reciter |-> p.reciter,
         url |-> IF item.enclosure # <<>> THEN item.enclosure[1] ELSE "",
         duration |-> IF item.duration # <<>> THEN item.duration[1] ELSE "00:00",
         image |-> IF item.image # <<>> THEN item.image[1] ELSE channelImage]

\* an admission test that lets every item in
AdmitsAny(episode) == TRUE

\* if (url) { items.push(...) }
Admits(episode) == episode.url # ""

\* items.unshift(episode) in place of items.push(episode)
PushFront(items, episode) == <<episode>> \o items

\* items.push(episode)
Push(items, episode) == Append(items, episode)

\* while ((match = itemRegex.exec(xmlText)) !== null) { ... }
RECURSIVE ItemLoop(_, _, _, _)
ItemLoop(blocks, channelImage, rnds, items) ==
    IF blocks = <<>> THEN items
    ELSE LET episode == EpisodeOf(Head(blocks), channelImage, Head(rnds))
         IN  ItemLoop(Tail(blocks), channelImage, Tail(rnds),
                      IF Admits(episode) THEN Push(items, episode) ELSE items)

\* The try block: <<>> when it throws (fetch rejects, res.ok is false,
\* res.text() rejects, or a runtime error is raised while the items are
\* parsed), <<items>> when it returns.
TryFetchAndParse(response, rnds) ==
    IF response.outcome # "ok" THEN <<>>
    ELSE <<ItemLoop(response.doc.items, ChannelImage(response.doc), rnds, <<>>)>>

\* the function with the catch clause rethrowing
GetPodcastEpisodesRethrow(response, rnds) ==
    LET r == TryFetchAndParse(response, rnds)
    IN  IF r = <<>> THEN [status |-> "raised", items |-> <<>>]
        ELSE [status |-> "returned", items |-> r[1]]

\* getPodcastEpisodes(): try { ... return items } catch { return [] }
GetPodcastEpisodes(response, rnds) ==
    LET r == TryFetchAndParse(response, rnds)
    IN  IF r = <<>> THEN [status |-> "returned", items |-> <<>>]
        ELSE [status |-> "returned", items |-> r[1]]

\* getFeed() of the page: the same body, fetch without the revalidate option
GetFeed(response, rnds) == GetPodcastEpisodes(response, rnds)

----------------------------------------------------------------------------
(* Feeds the extractor is applied to *)

TitleA == ArabicSurah \o <<" ", "x", " ", "|", " ", "y">>
TitleB == <<"x">>

AllItemBlocks ==
    [title : {<<>>, <<TitleA>>, <<TitleB>>},
     enclosure : {<<>>, <<"">>, <<"u1">>},
     guid : {<<>>, <<"g1">>},
     image : {<<>>, <<"i1">>},
     duration : {<<>>, <<"03:15">>}]

\* every title and enclosure with guid, image and duration all there or all
\* missing, and every combination of the three for a titled item with audio
ItemBlocks ==
    {b \in AllItemBlocks :
        \/ (b.guid = <<>>) = (b.image = <<>>) /\ (b.image = <<>>) = (b.duration = <<>>)
        \/ b.title = <<TitleA>> /\ b.enclosure = <<"u1">>}

RECURSIVE SeqsUpTo(_, _)
SeqsUpTo(S, n) ==
    IF n = 0 THEN {<<>>}
    ELSE LET shorter == SeqsUpTo(S, n - 1)
         IN  shorter \cup {Append(q, x) : q \in shorter, x \in S}

Documents ==
    [image : {<<>>, <<"c1">>}, items : SeqsUpTo(ItemBlocks, MaxItems)]

\* the documents behind a failed call: an empty one and one with a playable item
FailedDocuments ==
    { [image |-> <<>>, items |-> <<>>],
      [image |-> <<"c1">>,
       items |-> << [title |-> <<TitleA>>, enclosure |-> <<"u1">>, guid |-> <<"g1">>,
                     image |-> <<"i1">>, duration |-> <<"03:15">>] >>] }

\* How the try block goes: "rejected" (fetch rejects: network failure),
\* "not_ok" (res.ok is false), "no_body" (res.text() rejects), "parse_error"
\* (a runtime error raised inside the item loop), "ok" (it reaches return).
Responses ==
    {[outcome |-> o, doc |-> d] :
        o \in {"rejected", "not_ok", "no_body", "parse_error"}, d \in FailedDocuments}
    \cup {[outcome |-> "ok", doc |-> d] : d \in Documents}

RandomIds == {"0.25", "0.75"}

\* the variables of the parser and of the player stay idle
ExtractInit ==
    /\ feed \in Responses
    /\ extracted = <<>>
    /\ fullTitle = <<>>
    /\ parsed = <<>>
    /\ episodes = <<>>
    /\ selectedReciter = <<>>
    /\ reciterSearch = <<>>
    /\ surahSearch = <<>>
    /\ reciters = <<>>
    /\ filteredEpisodes = <<>>
    /\ pc = "idle"
    /\ rawText = <<>>
    /\ normalized = <<>>
    /\ initialEpisodes = <<>>
    /\ currentId = <<>>
    /\ isPlaying = FALSE
    /\ isLoadingAudio = FALSE
    /\ currentTime = 0
    /\ shouldSeekRef = <<>>
    /\ audioLoaded = FALSE
    /\ podcastState = <<>>
    /\ savedReciter = <<>>
    /\ urlReciter = <<>>
    /\ opened = <<>>

ExtractStep ==
    /\ extracted = <<>>
    /\ \E rnds \in [1..Len(feed.doc.items) -> RandomIds] :
          extracted' = <<GetPodcastEpisodes(feed, rnds)>>
    /\ UNCHANGED feed
    /\ UNCHANGED <<parseVars, playerVars, normalizeVars, playbackVars, browserVars, sessionVars>>

----------------------------------------------------------------------------
(* PodcastPlayer: text normalisation and the two memos                     *)

\* [ً-ٟ]: the marks of that range which the model's texts use
\* (fathatan, dammatan, kasratan, fatha, damma, kasra, shadda, sukun)
IsDiacritic(c) ==
    c \in {"fathatan", "dammatan", "kasratan", "fatha", "damma", "kasra",
           "shadda", "sukun"}

\* the three letter replacements of normalizeArabic, on one character
UnifyLetter(c) ==
    CASE c \in {"alef_hamza_above", "alef_hamza_below", "alef_madda"} -> "alef"
      [] c = "teh_marbuta" -> "heh"
      [] c = "alef_maksura" -> "yeh"
      [] OTHER -> c

\* /[\u064B-\u065F]/ without the g flag: only the first mark is removed
RECURSIVE StripFirstDiacritic(_)
StripFirstDiacritic(s) ==
    IF s = <<>> THEN <<>>
    ELSE IF IsDiacritic(Head(s)) THEN Tail(s)
    ELSE <<Head(s)>> \o StripFirstDiacritic(Tail(s))

RECURSIVE StripDiacritics(_)
StripDiacritics(s) ==
    IF s = <<>> THEN <<>>
    ELSE (IF IsDiacritic(Head(s)) THEN <<>> ELSE <<Head(s)>>)
         \o StripDiacritics(Tail(s))

normalizeArabic(text) ==
    ToLowerCase(StripDiacritics([i \in 1..Len(text) |-> UnifyLetter(text[i])]))

\* createSearchRegex(query).test(s): the normalised query, every special
\* character escaped, matched anywhere in s without regard to case
SearchRegexTest(query, s) ==
    Includes(ToLowerCase(s), ToLowerCase(normalizeArabic(query)))

All == <<"A", "l", "l">>

\* the representative image taken from the last episode of a reciter
RECURSIVE ReciterMapLast(_, _)
ReciterMapLast(eps, map) ==
    IF eps = <<>> THEN map
    ELSE LET ep == Head(eps)
             at == {i \in 1..Len(map) : map[i].name = ep.reciter}
         IN  ReciterMapLast(Tail(eps),
                IF at = {} THEN Append(map, [name |-> ep.reciter, image |-> ep.image])
                ELSE [i \in 1..Len(map) |->
                        IF i \in at THEN [name |-> ep.reciter, image |-> ep.image]
                        ELSE map[i]])

\* episodes.forEach((ep) => { if (!map.has(ep.reciter)) map.set(...) }): the
\* Map's entries in insertion order
RECURSIVE ReciterMap(_, _)
ReciterMap(eps, map) ==
    IF eps = <<>> THEN map
    ELSE LET ep == Head(eps)
         IN  ReciterMap(Tail(eps),
                IF \E i \in 1..Len(map) : map[i].name = ep.reciter
                THEN map
                ELSE Append(map, [name |-> ep.reciter, image |-> ep.image]))

ReciterMatches(r, query) ==
    \/ SearchRegexTest(query, normalizeArabic(r.name))
    \/ Includes(ToLowerCase(r.name), ToLowerCase(query))

\* the reciters memo
Reciters(eps, query) ==
    LET allReciters == ReciterMap(eps, <<>>)
        Keep(r) == ReciterMatches(r, query)
    IN  IF query # <<>> THEN SelectSeq(allReciters, Keep) ELSE allReciters

\* normalizedQuery.split(" ").filter((t) => t.length > 0)
QueryTerms(query) ==
    LET NonEmpty(t) == Len(t) > 0
    IN  SelectSeq(Split(normalizeArabic(query), " "), NonEmpty)

\* the search predicate with "some" in place of "every"
EpisodeMatchesSome(e, queryTerms) ==
    LET combined == normalizeArabic(e.surah) \o <<" ">> \o normalizeArabic(e.reciter)
    IN  \E k \in 1..Len(queryTerms) : Includes(combined, queryTerms[k])

\* queryTerms.every((term) => combined.includes(term))
EpisodeMatches(e, queryTerms) ==
    LET combined == normalizeArabic(e.surah) \o <<" ">> \o normalizeArabic(e.reciter)
    IN  \A k \in 1..Len(queryTerms) : Includes(combined, queryTerms[k])

\* Canonical order table of @/utils/surahOrder: the rank of a chapter name,
\* UnrankedOrder for a name the table does not have.
SurahOne == ArabicSurah \o <<" ", "alef">>
SurahTwo == ArabicSurah \o <<" ", "beh">>
SurahOrderTable == (SurahOne :> 1) @@ (SurahTwo :> 2)
UnrankedOrder == 999

getSurahOrder(name) ==
    IF name \in DOMAIN SurahOrderTable THEN SurahOrderTable[name] ELSE UnrankedOrder

\* the comparator with its operands exchanged
CompareReversed(a, b) == getSurahOrder(b.surah) - getSurahOrder(a.surah)

\* (a, b) => getSurahOrder(a.surah) - getSurahOrder(b.surah)
Compare(a, b) == getSurahOrder(a.surah) - getSurahOrder(b.surah)

\* Array.prototype.sort with the comparator: the stable sort, by insertion of
\* each element after the last one that does not compare greater
RECURSIVE InsertAt(_, _, _)
InsertAt(sorted, e, k) ==
    IF k = 0 \/ Compare(sorted[k], e) <= 0
    THEN SubSeq(sorted, 1, k) \o <<e>> \o SubSeq(sorted, k + 1, Len(sorted))
    ELSE InsertAt(sorted, e, k - 1)

RECURSIVE SortFrom(_, _)
SortFrom(rest, sorted) ==
    IF rest = <<>> THEN sorted
    ELSE SortFrom(Tail(rest), InsertAt(sorted, Head(rest), Len(sorted)))

Sort(arr) == SortFrom(arr, <<>>)

\* The filteredEpisodes memo.  result starts as the episodes array itself and
\* is a new array only once a filter has been applied; sort works in place, so
\* when no filter applies it is the episodes array that is sorted.
FilteredEpisodes(eps, reciter, query) ==
    LET ByReciter(e) == e.reciter = reciter
        byReciter == IF reciter # All THEN SelectSeq(eps, ByReciter) ELSE eps
        terms == QueryTerms(query)
        BySearch(e) == EpisodeMatches(e, terms)
        bySearch == IF query # <<>> THEN SelectSeq(byReciter, BySearch) ELSE byReciter
        sorted == Sort(bySearch)
    IN  [result |-> sorted,
         episodes |-> IF reciter = All /\ query = <<>> THEN sorted ELSE eps]

----------------------------------------------------------------------------
(* The player's feeds and inputs *)

ReciterOne == <<"alef_hamza_above", "beh">>
ReciterTwo == <<"Y">>

Title(surah, reciter) == surah \o <<" ", "|", " ">> \o reciter

PlayerBlock(title, id, image) ==
    [title |-> <<title>>, enclosure |-> <<id>>, guid |-> <<id>>,
     image |-> image, duration |-> <<"03:15">>]

PlayerBlocks ==
    { PlayerBlock(Title(SurahTwo, ReciterOne), "a", <<"ia">>),
      PlayerBlock(Title(SurahOne, ReciterOne), "b", <<"ib">>),
      PlayerBlock(<<"x">>, "c", <<>>),
      PlayerBlock(Title(<<"S", "u", "r", "a", "h", " ", "x">>, ReciterTwo), "d", <<"id">>) }

PlayerResponses ==
    {[outcome |-> "ok", doc |-> [image |-> <<"c1">>, items |-> blocks]] :
        blocks \in SeqsUpTo(PlayerBlocks, MaxEpisodes)}

SurahQueries ==
    { <<>>, <<" ">>, <<"X">>,
      <<"seen", "waw", "reh", "heh">>,
      <<"x", " ", " ", "Y">>,
      <<"beh", "\t", "seen">> }

ReciterQueries == { <<>>, <<"alef", "beh">>, <<"y">> }

NoRandom == [i \in 1..MaxEpisodes + 1 |-> "0.25"]

\* The component as constructed by the page that passes getFeed()'s result
\* as the episodes prop: nothing has been rendered yet, nothing is stored in
\* the browser and the URL has no reciter parameter.
PlayerInit ==
    /\ feed \in PlayerResponses
    /\ extracted = <<GetFeed(feed, NoRandom)>>
    /\ initialEpisodes = extracted[1].items
    /\ episodes = initialEpisodes
    /\ selectedReciter = All
    /\ reciterSearch = <<>>
    /\ surahSearch = <<>>
    /\ reciters = <<>>
    /\ filteredEpisodes = <<>>
    /\ pc = "mount"
    /\ currentId = <<>>
    /\ isPlaying = FALSE
    /\ isLoadingAudio = FALSE
    /\ currentTime = 0
    /\ shouldSeekRef = <<>>
    /\ audioLoaded = FALSE
    /\ podcastState = <<>>
    /\ savedReciter = <<>>
    /\ urlReciter = <<>>
    /\ opened = [reciter |-> urlReciter, state |-> podcastState]
    /\ fullTitle = <<>>
    /\ parsed = <<>>
    /\ rawText = <<>>
    /\ normalized = <<>>

\* episodes.some((e) => e.reciter === name)
ReciterExists(eps, name) == \E i \in 1..Len(eps) : eps[i].reciter = name

Max0(n) == IF n > 0 THEN n ELSE 0

\* effect 1, "Restore Playback State": <<>> when nothing is restored, else
\* the id made current and the position shouldSeekRef is given
RestorePlayback(savedState) ==
    IF savedState # <<>> /\ savedState[1].id # ""
    THEN <<[id |-> savedState[1].id, seek |-> Max0(savedState[1].time - 5)]>>
    ELSE <<>>

\* effect 1, "Check URL first" and "Fallback to LocalStorage": <<>> when
\* setSelectedReciter is not called, else the reciter it is called with
InitialReciter(eps, url, saved) ==
    IF url # <<>> /\ url[1] # <<>> /\ ReciterExists(eps, url[1]) THEN url
    ELSE IF saved # <<>> /\ saved[1] # <<>> /\ ReciterExists(eps, saved[1]) THEN saved
    ELSE <<>>

\* effect 2, "Persist to LocalStorage and URL", run with selectedReciter = reciter
Persist(reciter, browser) ==
    IF reciter # <<>>
    THEN [saved |-> <<reciter>>,
          url |-> IF reciter = All THEN <<>> ELSE <<reciter>>]
    ELSE browser

\* src of the <audio> element: currentEpisode?.url
AudioSrc(eps, id) ==
    LET at == FindIndex([i \in 1..Len(eps) |-> id = <<eps[i].id>>])
    IN  IF at = 0 THEN <<>> ELSE <<eps[at].url>>

\* A render with eps as the episodes array, all memos computed, followed by
\* effect 1 (the array is new) and, when effect 1 selects a reciter, the
\* render and the run of effect 2 that selection causes.  browser is what
\* effect 2 has left in localStorage and in the URL if it ran in the same
\* commit as effect 1, after it.
RenderAndInitialize(eps, browser) ==
    LET r1 == Reciters(eps, reciterSearch)
        f1 == FilteredEpisodes(eps, selectedReciter, surahSearch)
        restored == RestorePlayback(podcastState)
        chosen == InitialReciter(f1.episodes, urlReciter, savedReciter)
        reciter == IF chosen = <<>> THEN selectedReciter ELSE chosen[1]
        f2 == FilteredEpisodes(f1.episodes, reciter, surahSearch)
        b2 == IF reciter # selectedReciter THEN Persist(reciter, browser) ELSE browser
        id == IF restored # <<>> THEN <<restored[1].id>> ELSE currentId
    IN  /\ reciters' = r1
        /\ IF reciter # selectedReciter
           THEN filteredEpisodes' = f2.result /\ episodes' = f2.episodes
           ELSE filteredEpisodes' = f1.result /\ episodes' = f1.episodes
        /\ selectedReciter' = reciter
        /\ savedReciter' = b2.saved
        /\ urlReciter' = b2.url
        /\ currentId' = id
        /\ shouldSeekRef' = IF restored # <<>> THEN <<restored[1].seek>> ELSE shouldSeekRef
        /\ audioLoaded' = (audioLoaded /\ AudioSrc(eps, id) = AudioSrc(episodes, currentId))
        /\ UNCHANGED <<reciterSearch, surahSearch, isPlaying, isLoadingAudio,
                       currentTime, podcastState>>
        /\ UNCHANGED <<parseVars, normalizeVars, sessionVars, feed>>

\* The first render and the effects of the mount, in order: effect 0 starts
\* the fetch when the prop is empty, effect 1 initialises from localStorage
\* and the URL, effect 2 persists the selection of the first render.
FirstRender ==
    /\ pc = "mount"
    /\ RenderAndInitialize(episodes,
            Persist(selectedReciter, [saved |-> savedReciter, url |-> urlReciter]))
    /\ pc' = IF Len(initialEpisodes) > 0 THEN "ready" ELSE "fetching"
    /\ UNCHANGED extracted

\* effect 0, after the await: setEpisodes(fetchedEpisodes) and the render
\* and effects it causes
FetchResolved ==
    /\ pc = "fetching"
    /\ extracted' = <<GetPodcastEpisodes(feed, NoRandom)>>
    /\ RenderAndInitialize(extracted'[1].items,
            [saved |-> savedReciter, url |-> urlReciter])
    /\ pc' = "ready"

Mounted == pc \in {"fetching", "ready"}

\* A render after a handler has set the selection or a search text: the
\* reciters memo and then the filteredEpisodes memo are evaluated, each only
\* when one of its dependencies has changed since the last render.  The
\* episodes array keeps its identity when it is sorted in place, so only the
\* search texts and the selection count.  Effect 2 runs when the selection
\* has changed.
RenderWith(reciter, rSearch, sSearch) ==
    LET f == FilteredEpisodes(episodes, reciter, sSearch)
        b == IF reciter # selectedReciter
             THEN Persist(reciter, [saved |-> savedReciter, url |-> urlReciter])
             ELSE [saved |-> savedReciter, url |-> urlReciter]
    IN  /\ reciters' = IF rSearch # reciterSearch
                       THEN Reciters(episodes, rSearch) ELSE reciters
        /\ IF reciter # selectedReciter \/ sSearch # surahSearch
           THEN filteredEpisodes' = f.result /\ episodes' = f.episodes
           ELSE UNCHANGED <<filteredEpisodes, episodes>>
        /\ selectedReciter' = reciter
        /\ reciterSearch' = rSearch
        /\ surahSearch' = sSearch
        /\ savedReciter' = b.saved
        /\ urlReciter' = b.url
        /\ UNCHANGED <<pc, parseVars, extractVars, normalizeVars, playbackVars,
                       sessionVars>>

\* onReciterSelect(reciterName), on the "All" option or on a listed reciter
OnReciterSelect ==
    /\ Mounted
    /\ \E name \in {All} \cup {reciters[i].name : i \in 1..Len(reciters)} :
          RenderWith(name, reciterSearch, surahSearch)

\* onChange of the reciter search input: setReciterSearch(e.target.value)
SetReciterSearch ==
    /\ Mounted
    /\ \E q \in ReciterQueries : RenderWith(selectedReciter, q, surahSearch)

\* onChange of the surah search input: setSurahSearch(e.target.value)
SetSurahSearch ==
    /\ Mounted
    /\ \E q \in SurahQueries : RenderWith(selectedReciter, reciterSearch, q)

Next ==
    \/ FirstRender
    \/ FetchResolved
    \/ OnReciterSelect
    \/ SetReciterSearch
    \/ SetSurahSearch

----------------------------------------------------------------------------
(* PodcastPlayer: playback handlers and audio events *)

\* the playback state the handlers read and set
Playback ==
    [currentId |-> currentId, isPlaying |-> isPlaying,
     isLoadingAudio |-> isLoadingAudio, currentTime |-> currentTime,
     shouldSeekRef |-> shouldSeekRef]

\* handlePlayPause with shouldSeekRef left alone when the episode changes
handlePlayPauseKeepSeek(st, id) ==
    IF st.currentId = <<id>>
    THEN [st EXCEPT !.isPlaying = ~st.isPlaying]
    ELSE [st EXCEPT !.currentId = <<id>>, !.isPlaying = TRUE,
                    !.isLoadingAudio = TRUE, !.currentTime = 0]

handlePlayPause(st, id) ==
    IF st.currentId = <<id>>
    THEN [st EXCEPT !.isPlaying = ~st.isPlaying]
    ELSE [st EXCEPT !.currentId = <<id>>, !.isPlaying = TRUE,
                    !.isLoadingAudio = TRUE, !.currentTime = 0,
                    !.shouldSeekRef = <<>>]

\* list.findIndex((e) => e.id === currentId), counted from 1, 0 for -1
CurrentIndex(list, id) ==
    FindIndex([i \in 1..Len(list) |-> id = <<list[i].id>>])

handleNext(st, list) ==
    IF st.currentId = <<>> THEN st
    ELSE LET currentIndex == CurrentIndex(list, st.currentId)
         IN  IF currentIndex - 1 < Len(list) - 1
             THEN handlePlayPause(st, list[currentIndex + 1].id)
             ELSE st

handlePrev(st, list) ==
    IF st.currentId = <<>> THEN st
    ELSE LET currentIndex == CurrentIndex(list, st.currentId)
         IN  IF currentIndex - 1 > 0
             THEN handlePlayPause(st, list[currentIndex - 1].id)
             ELSE st

onLoadedData(st) ==
    [st EXCEPT !.isLoadingAudio = FALSE,
               !.currentTime = IF st.shouldSeekRef # <<>> THEN st.shouldSeekRef[1] ELSE @,
               !.shouldSeekRef = <<>>]

\* the state a handler has set, and the <audio> element after the render:
\* a new src starts a new load
SetPlayback(st) ==
    /\ currentId' = st.currentId
    /\ isPlaying' = st.isPlaying
    /\ isLoadingAudio' = st.isLoadingAudio
    /\ currentTime' = st.currentTime
    /\ shouldSeekRef' = st.shouldSeekRef
    /\ audioLoaded' =
          (audioLoaded /\ AudioSrc(episodes, st.currentId) = AudioSrc(episodes, currentId))
    /\ UNCHANGED <<podcastState, pc, parseVars, extractVars, playerVars,
                   normalizeVars, browserVars, sessionVars>>

\* the play button of a listed episode, or of the player bar when the
\* current episode is shown there
HandlePlayPause ==
    /\ Mounted
    /\ \E id \in {filteredEpisodes[i].id : i \in 1..Len(filteredEpisodes)}
                 \cup (IF AudioSrc(episodes, currentId) # <<>>
                       THEN {currentId[1]} ELSE {}) :
          SetPlayback(handlePlayPause(Playback, id))

\* the next button, or onEnded of the <audio> element
HandleNext ==
    /\ Mounted
    /\ SetPlayback(handleNext(Playback, filteredEpisodes))

HandlePrev ==
    /\ Mounted
    /\ SetPlayback(handlePrev(Playback, filteredEpisodes))

\* loadeddata: once for each src the element is given
OnLoadedData ==
    /\ Mounted
    /\ AudioSrc(episodes, currentId) # <<>>
    /\ ~audioLoaded
    /\ LET st == onLoadedData(Playback)
       IN  /\ currentId' = st.currentId
           /\ isPlaying' = st.isPlaying
           /\ isLoadingAudio' = st.isLoadingAudio
           /\ currentTime' = st.currentTime
           /\ shouldSeekRef' = st.shouldSeekRef
    /\ audioLoaded' = TRUE
    /\ UNCHANGED <<podcastState, pc, parseVars, extractVars, playerVars,
                   normalizeVars, browserVars, sessionVars>>

\* the positions the <audio> element reports once its data is loaded
PlayTimes == {3, 7}

\* timeupdate: while a new src is loading the position is back at 0
OnTimeUpdate ==
    /\ Mounted
    /\ AudioSrc(episodes, currentId) # <<>>
    /\ \E time \in IF audioLoaded THEN PlayTimes ELSE {0} :
          IF ~isLoadingAudio
          THEN /\ currentTime' = time
               /\ podcastState' =
                     IF currentId # <<>>
                     THEN <<[id |-> currentId[1], time |-> time]>>
                     ELSE podcastState
          ELSE UNCHANGED <<currentTime, podcastState>>
    /\ UNCHANGED <<currentId, isPlaying, isLoadingAudio, shouldSeekRef, audioLoaded,
                   pc, parseVars, extractVars, playerVars, normalizeVars,
                   browserVars, sessionVars>>

----------------------------------------------------------------------------
(* The player's sessions: either start-up flow, with what the browser holds *)

\* feeds of distinct episodes a, b and d, at least one
SessionResponses ==
    {r \in PlayerResponses :
        LET items == r.doc.items
        IN  /\ items # <<>>
            /\ \A i \in 1..Len(items) : items[i].guid[1] \in {"a", "b", "d"}
            /\ \A i, j \in 1..Len(items) : items[i] = items[j] => i = j}

\* localStorage "podcast_state" when the page is opened
StoredStates ==
    {<<>>, <<[id |-> "a", time |-> 7]>>, <<[id |-> "d", time |-> 3]>>,
     <<[id |-> "", time |-> 7]>>}

\* the reciter parameter of the URL the page is opened with
UrlReciters == {<<>>, <<ReciterOne>>, <<ReciterTwo>>}

\* localStorage "selectedReciter" when the page is opened
SavedReciters == {<<>>, <<ReciterTwo>>}

\* The component as constructed, with the episodes prop (getFeed()'s result)
\* or without it, in a browser that holds a playback snapshot, a saved
\* reciter and a reciter parameter, or not.
SessionInit ==
    /\ feed \in SessionResponses
    /\ initialEpisodes \in {<<>>, GetFeed(feed, NoRandom).items}
    /\ extracted = IF initialEpisodes = <<>> THEN <<>> ELSE <<GetFeed(feed, NoRandom)>>
    /\ episodes = initialEpisodes
    /\ selectedReciter = All
    /\ reciterSearch = <<>>
    /\ surahSearch = <<>>
    /\ reciters = <<>>
    /\ filteredEpisodes = <<>>
    /\ pc = "mount"
    /\ currentId = <<>>
    /\ isPlaying = FALSE
    /\ isLoadingAudio = FALSE
    /\ currentTime = 0
    /\ shouldSeekRef = <<>>
    /\ audioLoaded = FALSE
    /\ podcastState \in StoredStates
    /\ savedReciter \in SavedReciters
    /\ urlReciter \in UrlReciters
    /\ opened = [reciter |-> urlReciter, state |-> podcastState]
    /\ fullTitle = <<>>
    /\ parsed = <<>>
    /\ rawText = <<>>
    /\ normalized = <<>>

SessionNext ==
    \/ FirstRender
    \/ FetchResolved
    \/ OnReciterSelect
    \/ HandlePlayPause
    \/ HandleNext
    \/ HandlePrev
    \/ OnLoadedData
    \/ OnTimeUpdate

----------------------------------------------------------------------------
(* Titles the parser is applied to: concatenations of at most MaxTokens    *)
(* tokens                                                                  *)

Tokens ==
    { <<" ">>, <<"-">>, <<"|">>, <<"x">>, ArabicSurah,
      <<"S", "u", "r", "a", "h">>, UnknownEnglish }

RECURSIVE TitlesOf(_)
TitlesOf(n) ==
    IF n = 0 THEN {<<>>}
    ELSE LET shorter == TitlesOf(n - 1)
         IN  shorter \cup {t \o k : t \in shorter, k \in Tokens}

\* ... and the Arabic "unknown reciter" literal with at most two tokens on
\* each side, and the title of an item that has none
Titles ==
    TitlesOf(MaxTokens)
    \cup {p \o UnknownArabic \o q : p \in TitlesOf(2), q \in TitlesOf(2)}
    \cup {UnknownTitle}

\* the variables of the extractor and of the player stay idle
ParseInit ==
    /\ fullTitle \in Titles
    /\ parsed = <<>>
    /\ feed = <<>>
    /\ extracted = <<>>
    /\ episodes = <<>>
    /\ selectedReciter = <<>>
    /\ reciterSearch = <<>>
    /\ surahSearch = <<>>
    /\ reciters = <<>>
    /\ filteredEpisodes = <<>>
    /\ pc = "idle"
    /\ rawText = <<>>
    /\ normalized = <<>>
    /\ initialEpisodes = <<>>
    /\ currentId = <<>>
    /\ isPlaying = FALSE
    /\ isLoadingAudio = FALSE
    /\ currentTime = 0
    /\ shouldSeekRef = <<>>
    /\ audioLoaded = FALSE
    /\ podcastState = <<>>
    /\ savedReciter = <<>>
    /\ urlReciter = <<>>
    /\ opened = <<>>

ParseStep ==
    /\ parsed = <<>>
    /\ parsed' = <<ParseTitle(fullTitle)>>
    /\ UNCHANGED fullTitle
    /\ UNCHANGED <<extractVars, playerVars, normalizeVars, playbackVars, browserVars, sessionVars>>

----------------------------------------------------------------------------
(* normalizeArabic on its own: inputs and steps *)

MaxTextLen == 3

\* the characters of the texts: the four alef forms the replacements tell
\* apart, teh marbuta / heh, alef maksura / yeh, a mark inside and a mark
\* outside U+064B..U+065F, a Latin letter in both cases
TextChars ==
    {"alef_hamza_above", "alef_hamza_below", "alef_madda", "alef",
     "teh_marbuta", "heh", "alef_maksura", "yeh",
     "fatha", "superscript_alef", "S", "s"}

Texts == UNION {[1..n -> TextChars] : n \in 0..MaxTextLen}

\* the variables of the parser, the extractor and the player stay idle
NormalizeInit ==
    /\ rawText \in Texts
    /\ normalized = <<>>
    /\ fullTitle = <<>>
    /\ parsed = <<>>
    /\ feed = <<>>
    /\ extracted = <<>>
    /\ episodes = <<>>
    /\ selectedReciter = <<>>
    /\ reciterSearch = <<>>
    /\ surahSearch = <<>>
    /\ reciters = <<>>
    /\ filteredEpisodes = <<>>
    /\ pc = "idle"
    /\ initialEpisodes = <<>>
    /\ currentId = <<>>
    /\ isPlaying = FALSE
    /\ isLoadingAudio = FALSE
    /\ currentTime = 0
    /\ shouldSeekRef = <<>>
    /\ audioLoaded = FALSE
    /\ podcastState = <<>>
    /\ savedReciter = <<>>
    /\ urlReciter = <<>>
    /\ opened = <<>>

\* normalizeArabic(text), then normalizeArabic of that result
NormalizeStep ==
    /\ Len(normalized) < 2
    /\ normalized' = Append(normalized,
            normalizeArabic(IF normalized = <<>> THEN rawText ELSE normalized[1]))
    /\ UNCHANGED rawText
    /\ UNCHANGED <<parseVars, extractVars, playerVars, playbackVars, browserVars, sessionVars>>

Spec == PlayerInit /\ [][Next]_vars

SpecSession == SessionInit /\ [][SessionNext]_vars

SpecNormalize == NormalizeInit /\ [][NormalizeStep]_vars

SpecExtract == ExtractInit /\ [][ExtractStep]_vars

SpecParse == ParseInit /\ [][ParseStep]_vars

----------------------------------------------------------------------------
(* Claims about the title parser, checked under SpecParse *)

\* C2: the reciter of a parsed title is never the empty string and never one
\* of the two "unknown reciter" literals.
C2_ReciterNeverUnknown ==
    parsed # <<>> =>
        /\ parsed[1].reciter # <<>>
        /\ parsed[1].reciter # UnknownArabic
        /\ parsed[1].reciter # UnknownEnglish

\* a title whose reciter label was the English "unknown" literal, replaced
C2_Witness ==
    /\ parsed # <<>>
    /\ parsed[1].label = UnknownEnglish
    /\ parsed[1].reciter = GeneralRecitations

ArabicSegments(parts) ==
    {i \in 1..Len(parts) : Includes(parts[i], ArabicSurah)}
EnglishSegments(parts) ==
    {i \in 1..Len(parts) : Includes(ToLowerCase(parts[i]), EnglishSurah)}
Least(S) == CHOOSE i \in S : \A j \in S : i <= j
FirstOf(S) == IF S = {} THEN {} ELSE {Least(S)}

\* the segments of parts whose index is not in skip, in order
RECURSIVE Others(_, _)
Others(parts, skip) ==
    IF parts = <<>> THEN <<>>
    ELSE Others(SubSeq(parts, 1, Len(parts) - 1), skip)
         \o (IF Len(parts) \in skip THEN <<>> ELSE <<parts[Len(parts)]>>)

\* C3: when some segment has a chapter marker, the chapter label is the first
\* Arabic-marker segment if any, else the first English-marker segment, and
\* the reciter label before the grouping is the trimmed space-join of every
\* segment other than the first Arabic-marker and first English-marker ones.
C3_MarkerLabels ==
    parsed # <<>> =>
        LET parts == parsed[1].parts
            A == ArabicSegments(parts)
            E == EnglishSegments(parts)
        IN  (A \cup E # {}) =>
              /\ parsed[1].surah =
                    IF A # {} THEN parts[Least(A)] ELSE parts[Least(E)]
              /\ parsed[1].label =
                    Trim(Join(Others(parts, FirstOf(A) \cup FirstOf(E)), <<" ">>))

\* both markers, in different segments, and a reciter segment besides
C3_Witness ==
    /\ parsed # <<>>
    /\ LET parts == parsed[1].parts
           A == ArabicSegments(parts)
           E == EnglishSegments(parts)
       IN  /\ A # {} /\ E # {}
           /\ Least(A) # Least(E)
           /\ parsed[1].surah = parts[Least(A)]
           /\ parsed[1].label = <<"x">>

ZeroDelimiters(title) ==
    ~Includes(title, <<"|">>) /\ ~Includes(title, <<" ", "-", " ">>)

\* C4: when no segment has a chapter marker, the chapter label is the first
\* segment and the reciter is the space-join of the remaining segments, then
\* grouped; a title with zero delimiters gives the whole trimmed title as
\* surah and the "general recitations" sentinel as reciter.
C4_FallbackLabels ==
    parsed # <<>> =>
        LET parts == parsed[1].parts
            rest == Join(Tail(parts), <<" ">>)
        IN  /\ (ArabicSegments(parts) \cup EnglishSegments(parts) = {}) =>
                  /\ parsed[1].surah = parts[1]
                  /\ parsed[1].label = rest
                  /\ parsed[1].reciter =
                        IF rest \in {<<>>, UnknownArabic, UnknownEnglish}
                        THEN GeneralRecitations ELSE rest
            /\ ZeroDelimiters(fullTitle) =>
                  /\ parsed[1].surah = Trim(fullTitle)
                  /\ parsed[1].reciter = GeneralRecitations

\* no marker, three segments, and a reciter that is a real name
C4_Witness ==
    /\ parsed # <<>>
    /\ ArabicSegments(parsed[1].parts) \cup EnglishSegments(parsed[1].parts) = {}
    /\ Len(parsed[1].parts) = 3
    /\ parsed[1].surah = <<"x">>
    /\ parsed[1].reciter = <<"x", " ", "x">>

----------------------------------------------------------------------------
(* Claims about the feed extractor, checked under SpecExtract *)

\* the audio URL of an item, "" when it has none
AudioUrl(item) == IF item.enclosure = <<>> THEN "" ELSE item.enclosure[1]
HasAudio(item) == AudioUrl(item) # ""

\* the indices of the items with an audio URL, ascending
RECURSIVE Ascending(_)
Ascending(S) ==
    IF S = {} THEN <<>> ELSE <<Least(S)>> \o Ascending(S \ {Least(S)})

AudioItems(blocks) == Ascending({i \in 1..Len(blocks) : HasAudio(blocks[i])})

\* C1: an item is retained if and only if its audio URL is non-empty: every
\* retained episode has a non-empty url, and every item with an audio URL has
\* its episode in the result whatever the other items of the feed are.
C1_AudioUrlSoleFilter ==
    (extracted # <<>> /\ feed.outcome = "ok") =>
        LET blocks == feed.doc.items
            items == extracted[1].items
        IN  /\ \A j \in 1..Len(items) : items[j].url # ""
            /\ \A i \in 1..Len(blocks) :
                  HasAudio(blocks[i]) <=>
                     \E j \in 1..Len(items) :
                        /\ items[j].url = AudioUrl(blocks[i])
                        /\ items[j].title = FullTitle(blocks[i])
                        /\ blocks[i].guid # <<>> => items[j].id = blocks[i].guid[1]
            /\ Len(items) = Len(AudioItems(blocks))

\* a feed whose first item has no enclosure and whose second is retained
C1_Witness ==
    /\ extracted # <<>>
    /\ feed.outcome = "ok"
    /\ Len(feed.doc.items) = 2
    /\ feed.doc.items[1].enclosure = <<>>
    /\ Len(extracted[1].items) = 1
    /\ extracted[1].items[1].url = "u1"

\* C9: the extractor returns and never raises; a network failure, a
\* non-success response and a body that cannot be read each give the empty
\* sequence.
C9_NeverRaises ==
    extracted # <<>> =>
        /\ extracted[1].status = "returned"
        /\ feed.outcome # "ok" => extracted[1].items = <<>>

\* the response for a feed with a playable item was not a success, and the
\* call has returned
C9_Witness ==
    /\ extracted # <<>>
    /\ feed.outcome = "not_ok"
    /\ feed.doc.items # <<>>
    /\ extracted[1].status = "returned"
    /\ extracted[1].items = <<>>

\* C10: the result is the subsequence of the feed's items that have an audio
\* URL, in feed order: its j-th episode is built from the j-th such item.
C10_FeedOrder ==
    (extracted # <<>> /\ feed.outcome = "ok") =>
        LET blocks == feed.doc.items
            items == extracted[1].items
            kept == AudioItems(blocks)
        IN  /\ Len(items) = Len(kept)
            /\ \A j \in 1..Len(kept) :
                  /\ items[j].title = FullTitle(blocks[kept[j]])
                  /\ items[j].url = AudioUrl(blocks[kept[j]])
                  /\ blocks[kept[j]].guid # <<>> =>
                        items[j].id = blocks[kept[j]].guid[1]
                  /\ blocks[kept[j]].duration # <<>> =>
                        items[j].duration = blocks[kept[j]].duration[1]

\* two retained items that differ, in feed order
C10_Witness ==
    /\ extracted # <<>>
    /\ feed.outcome = "ok"
    /\ Len(extracted[1].items) = 2
    /\ extracted[1].items[1].title = TitleB
    /\ extracted[1].items[2].title = TitleA

----------------------------------------------------------------------------
(* Claims about the search and filter memos, checked under Spec *)

\* the terms of a normalised query: its maximal runs of characters that are
\* not separators
TermsOf(query, IsSeparator(_)) ==
    LET n == normalizeArabic(query)
        runs == {r \in (1..Len(n)) \X (1..Len(n)) :
                    /\ r[1] <= r[2]
                    /\ \A k \in r[1]..r[2] : ~IsSeparator(n[k])
                    /\ r[1] = 1 \/ IsSeparator(n[r[1] - 1])
                    /\ r[2] = Len(n) \/ IsSeparator(n[r[2] + 1])}
    IN  {SubSeq(n, r[1], r[2]) : r \in runs}

IsSpace(c) == c = " "

\* an episode answers the reciter filter and a query with the given terms
Answers(e, reciter, query, terms) ==
    /\ reciter = All \/ e.reciter = reciter
    /\ query # <<>> =>
          \A t \in terms :
              Includes(normalizeArabic(e.surah \o <<" ">> \o e.reciter), t)

Occurrences(seq, e) == Cardinality({i \in 1..Len(seq) : seq[i] = e})

Range(seq) == {seq[i] : i \in 1..Len(seq)}

\* seq holds exactly the episodes of eps that satisfy Wanted, as often as eps
ExactlyThose(seq, eps, Wanted(_)) ==
    \A e \in Range(seq) \cup Range(eps) :
        Occurrences(seq, e) = IF Wanted(e) THEN Occurrences(eps, e) ELSE 0

\* C5 as stated: the filtered episodes are exactly the episodes of the
\* selected reciter (any reciter for "All") that contain every term of the
\* normalised query, the terms being split on white space.
C5_WhitespaceTerms ==
    pc = "ready" =>
        LET Wanted(e) == Answers(e, selectedReciter, surahSearch,
                                 TermsOf(surahSearch, IsWhiteSpace))
        IN  ExactlyThose(filteredEpisodes, episodes, Wanted)

\* C5 amended: the same, the terms being split on the space character only.
C5_SpaceTerms ==
    pc = "ready" =>
        LET Wanted(e) == Answers(e, selectedReciter, surahSearch,
                                 TermsOf(surahSearch, IsSpace))
        IN  ExactlyThose(filteredEpisodes, episodes, Wanted)

\* a query of two terms; of three episodes one has both, one has only the
\* first, one has neither
C5_Witness ==
    /\ pc = "ready"
    /\ surahSearch = <<"x", " ", " ", "Y">>
    /\ selectedReciter = All
    /\ {episodes[i].id : i \in 1..Len(episodes)} = {"a", "c", "d"}
    /\ Len(filteredEpisodes) = 1
    /\ filteredEpisodes[1].id = "d"

\* the episodes of seq in ascending rank, those of one rank in the order of seq
RECURSIVE ByRank(_, _)
ByRank(seq, ranks) ==
    IF ranks = <<>> THEN <<>>
    ELSE LET HasRank(e) == getSurahOrder(e.surah) = Head(ranks)
         IN  SelectSeq(seq, HasRank) \o ByRank(seq, Tail(ranks))

RankOrder(seq) ==
    ByRank(seq, Ascending({getSurahOrder(seq[i].surah) : i \in 1..Len(seq)}))

FilterRecomputed ==
    pc = "mount" \/ selectedReciter' # selectedReciter \/ surahSearch' # surahSearch

\* C6: whenever the filtered episodes are computed, they are the matching
\* episodes of the collection in ascending rank, the unranked ones last, and
\* episodes of equal rank in the order they had in the collection.
C6_StableRankOrder ==
    [][FilterRecomputed =>
          LET Wanted(e) == Answers(e, selectedReciter', surahSearch',
                                   TermsOf(surahSearch', IsSpace))
          IN  /\ filteredEpisodes' = RankOrder(SelectSeq(episodes, Wanted))
              /\ \A i \in 1..Len(filteredEpisodes'), j \in 1..Len(filteredEpisodes') :
                    i < j => getSurahOrder(filteredEpisodes'[i].surah)
                                <= getSurahOrder(filteredEpisodes'[j].surah)]_vars

\* a feed of two unranked episodes followed by a ranked one
C6_Witness ==
    /\ pc = "ready"
    /\ Len(feed.doc.items) = 3
    /\ feed.doc.items[1].guid = <<"d">>
    /\ feed.doc.items[2].guid = <<"c">>
    /\ feed.doc.items[3].guid = <<"b">>
    /\ Len(filteredEpisodes) = 3
    /\ filteredEpisodes[1].id = "b"
    /\ filteredEpisodes[2].id = "d"
    /\ filteredEpisodes[3].id = "c"

\* C7: no step of the player changes the episode collection.
C7_EpisodesUnchanged == [][episodes' = episodes]_vars

\* one entry for each reciter of eps, in the order of first occurrence, with
\* the image of that first episode
FirstOccurrences(eps) ==
    LET firsts == Ascending({i \in 1..Len(eps) :
                      \A j \in 1..(i - 1) : eps[j].reciter # eps[i].reciter})
    IN  [k \in 1..Len(firsts) |->
            [name |-> eps[firsts[k]].reciter, image |-> eps[firsts[k]].image]]

RecitersRecomputed == pc = "mount" \/ reciterSearch' # reciterSearch

\* C8: whenever the reciter list is computed with an empty query, it has one
\* entry per distinct reciter of the collection, in order of first
\* occurrence, with the image of the first episode of that reciter.
C8_FirstOccurrence ==
    [][(RecitersRecomputed /\ reciterSearch' = <<>>) =>
          reciters' = FirstOccurrences(episodes)]_vars

\* two reciters, the first with two episodes that have different images
C8_Witness ==
    /\ pc = "ready"
    /\ reciterSearch = <<>>
    /\ Len(feed.doc.items) = 3
    /\ feed.doc.items[1].guid = <<"a">>
    /\ feed.doc.items[2].guid = <<"b">>
    /\ feed.doc.items[3].guid = <<"d">>
    /\ reciters = <<[name |-> ReciterOne, image |-> "ia"],
                    [name |-> ReciterTwo, image |-> "id"]>>

----------------------------------------------------------------------------
(* Claims about normalizeArabic, checked under SpecNormalize *)

\* C11: normalizeArabic is idempotent: normalising an already normalised
\* text gives that text back.
C11_Idempotent ==
    Len(normalized) = 2 => normalized[2] = normalized[1]

\* a text every replacement acts on, normalised twice
C11_Witness ==
    /\ Len(normalized) = 2
    /\ rawText = <<"alef_hamza_above", "fatha", "S">>
    /\ normalized[1] = <<"alef", "s">>
    /\ normalized[2] = <<"alef", "s">>

\* the spellings of one letter that differ only in the hamza form of alef,
\* in teh marbuta / heh, in alef maksura / yeh or in the case of a Latin letter
SpellingsOf(c) ==
    CASE c \in {"alef_hamza_above", "alef_hamza_below", "alef_madda", "alef"} ->
            {"alef_hamza_above", "alef_hamza_below", "alef_madda", "alef"}
      [] c \in {"teh_marbuta", "heh"} -> {"teh_marbuta", "heh"}
      [] c \in {"alef_maksura", "yeh"} -> {"alef_maksura", "yeh"}
      [] c \in {"S", "s"} -> {"S", "s"}
      [] OTHER -> {c}

\* the Arabic diacritical marks among the characters of the texts
ArabicMarks == {"fatha", "superscript_alef"}

Without(s, i) == SubSeq(s, 1, i - 1) \o SubSeq(s, i + 1, Len(s))

\* the texts one variation away from s: one letter respelt, or one mark left out
Variants(s) ==
    UNION {{[s EXCEPT ![i] = c] : c \in SpellingsOf(s[i])} : i \in 1..Len(s)}
    \cup {Without(s, i) : i \in {j \in 1..Len(s) : s[j] \in ArabicMarks}}

\* C12: two texts that differ only in the hamza form of alef, in teh marbuta
\* versus heh, in alef maksura versus yeh, in the presence of an Arabic
\* diacritical mark or in the case of a Latin letter normalise to the same
\* text.
C12_CollapsesVariation ==
    normalized # <<>> =>
        \A v \in Variants(rawText) : normalizeArabic(v) = normalized[1]

\* the same with the marks limited to those of U+064B..U+065F
C12_RangeMarksOnly ==
    normalized # <<>> =>
        \A v \in Variants(rawText) :
            (Len(v) = Len(rawText) \/ \E i \in 1..Len(rawText) :
                    v = Without(rawText, i) /\ IsDiacritic(rawText[i]))
                => normalizeArabic(v) = normalized[1]

----------------------------------------------------------------------------
(* Further claims about the title parser, checked under SpecParse *)

\* C13: the chapter label is empty only if the title split into a single
\* segment: a title of two or more segments always has a non-empty one.
C13_EmptyOnlyIfSingle ==
    parsed # <<>> =>
        (Len(parsed[1].parts) >= 2 => parsed[1].surah # <<>>)

\* C13 (amended): the chapter label is empty exactly when no segment has a
\* chapter marker and the first segment is empty, however many segments
\* there are.
C13_EmptyIffFirstEmpty ==
    parsed # <<>> =>
        LET parts == parsed[1].parts
        IN  parsed[1].surah = <<>> <=>
                /\ ArabicSegments(parts) \cup EnglishSegments(parts) = {}
                /\ parts[1] = <<>>

\* a title that begins with a separator: two segments, an empty chapter label
C13_Witness ==
    /\ parsed # <<>>
    /\ fullTitle = <<" ", "|", " ", "x">>
    /\ parsed[1].parts = << <<>>, <<"x">> >>
    /\ parsed[1].surah = <<>>
    /\ parsed[1].label = <<"x">>

\* position i of the title holds a hyphen with a space on either side
SpacedHyphen(title, i) ==
    /\ 1 < i /\ i < Len(title)
    /\ title[i - 1] = " " /\ title[i] = "-" /\ title[i + 1] = " "

\* the title with every " - " written " | "
EveryDashAsBar(title) ==
    [i \in 1..Len(title) |-> IF SpacedHyphen(title, i) THEN "|" ELSE title[i]]

\* the trimmed pieces of the title between the positions of seps
PiecesAt(title, seps) ==
    LET cuts == <<0>> \o Ascending(seps) \o <<Len(title) + 1>>
    IN  [k \in 1..Len(cuts) - 1 |->
            Trim(SubSeq(title, cuts[k] + 1, cuts[k + 1] - 1))]

\* the " - " found reading left to right, a space serving one " - " only:
\* of two that share a space the second is not one
RECURSIVE DashFound(_, _)
DashFound(title, i) ==
    SpacedHyphen(title, i) /\ ~(i > 2 /\ DashFound(title, i - 2))

\* no two " - " of the title share a space
NoSharedSpace(title) ==
    \A i \in 1..Len(title) : ~(SpacedHyphen(title, i) /\ SpacedHyphen(title, i + 2))

\* C16: the two separator styles are interchangeable: a title and that title
\* with every " - " written " | " parse to the same chapter and reciter; the
\* segments are the trimmed pieces between every "|" and every " - ", so a
\* hyphen without a space on both sides does not split.
C16_Interchangeable ==
    parsed # <<>> =>
        LET other == ParseTitle(EveryDashAsBar(fullTitle))
        IN  /\ other.surah = parsed[1].surah
            /\ other.reciter = parsed[1].reciter
            /\ parsed[1].parts =
                   PiecesAt(fullTitle, {i \in 1..Len(fullTitle) :
                       fullTitle[i] = "|" \/ SpacedHyphen(fullTitle, i)})

\* C16 (amended): the segments are the trimmed pieces between every "|" and
\* every " - " found reading left to right without overlap; a title in which
\* no two " - " share a space parses as it does with every " - " written
\* " | ".
C16_NonOverlapping ==
    parsed # <<>> =>
        LET other == ParseTitle(EveryDashAsBar(fullTitle))
        IN  /\ parsed[1].parts =
                   PiecesAt(fullTitle, {i \in 1..Len(fullTitle) :
                       fullTitle[i] = "|" \/ DashFound(fullTitle, i)})
            /\ NoSharedSpace(fullTitle) =>
                   /\ other.surah = parsed[1].surah
                   /\ other.reciter = parsed[1].reciter
                   /\ other.parts = parsed[1].parts

\* a hyphen that splits beside one that does not: "- - x"
C16_Witness ==
    /\ parsed # <<>>
    /\ fullTitle = <<"-", " ", "-", " ", "x">>
    /\ parsed[1].parts = << <<"-">>, <<"x">> >>
    /\ parsed[1].surah = <<"-">>
    /\ parsed[1].reciter = <<"x">>
    /\ ParseTitle(<<"-", " ", "|", " ", "x">>).parts = parsed[1].parts

----------------------------------------------------------------------------
(* Further claims about the feed extractor, checked under SpecExtract *)

\* the artwork of the feed header, "" when it has none
HeaderArtwork(doc) == IF doc.image = <<>> THEN "" ELSE doc.image[1]

\* the first artwork of the document: the header's, else that of the first
\* item that has one, else ""
FirstArtwork(doc) ==
    LET with == {i \in 1..Len(doc.items) : doc.items[i].image # <<>>}
    IN  IF doc.image # <<>> THEN doc.image[1]
        ELSE IF with # {} THEN doc.items[Least(with)].image[1]
        ELSE ""

C15_OwnOrHeaderArtwork ==
    (extracted # <<>> /\ feed.outcome = "ok") =>
        LET blocks == feed.doc.items
            items == extracted[1].items
            kept == AudioItems(blocks)
        IN  /\ Len(items) = Len(kept)
            /\ \A j \in 1..Len(kept) :
                  items[j].image =
                      IF blocks[kept[j]].image # <<>>
                      THEN blocks[kept[j]].image[1]
                      ELSE HeaderArtwork(feed.doc)

----------------------------------------------------------------------------
(* Further claims about the player's memos, checked under Spec *)

\* C18: after any sequence of reciter selections, reciter searches and surah
\* searches, every reciter of the reciter list carries the image of that
\* reciter's first episode in feed order.
C18_ImageOfFirstInFeed ==
    pc = "ready" =>
        LET inFeed == FirstOccurrences(extracted[1].items)
        IN  \A i \in 1..Len(reciters) :
                \E k \in 1..Len(inFeed) :
                    /\ inFeed[k].name = reciters[i].name
                    /\ inFeed[k].image = reciters[i].image

----------------------------------------------------------------------------
(* Claims about start-up and playback, checked under SpecSession *)

\* the reciter parameter the page was opened with names a reciter of eps
OpenedWithReciterOf(eps) ==
    /\ opened.reciter # <<>>
    /\ \E i \in 1..Len(eps) : eps[i].reciter = opened.reciter[1]

\* C17: when the page is opened with a reciter parameter that names a reciter
\* of the episodes, then in either start-up flow, once the mount effects and
\* the fetch have run, that reciter is the selected one and the URL still
\* has the parameter with that reciter.
C17_UrlReciterSelected ==
    [][(pc # "ready" /\ pc' = "ready" /\ OpenedWithReciterOf(extracted'[1].items))
          => /\ selectedReciter' = opened.reciter[1]
             /\ urlReciter' = opened.reciter]_vars

\* the same in the flow with the episodes prop alone
C17_PropFlowOnly ==
    [][(pc = "mount" /\ pc' = "ready" /\ OpenedWithReciterOf(extracted'[1].items))
          => /\ selectedReciter' = opened.reciter[1]
             /\ urlReciter' = opened.reciter]_vars

\* the place of the current episode in the filtered list, 0 when it is not there
PlaceOfCurrent ==
    LET at == {i \in 1..Len(filteredEpisodes) : currentId = <<filteredEpisodes[i].id>>}
    IN  IF at = {} THEN 0 ELSE Least(at)

\* C19: after handleNext or handlePrev the current episode is unchanged or is
\* the neighbour of the previous one in the filtered list (the next one for
\* handleNext, the one before for handlePrev), without wrap-around; nothing
\* changes when no episode is current, and the current episode stays when it
\* is not in the filtered list.
C19_NeighbourOrUnchanged ==
    [][/\ HandleNext =>
            \/ currentId' = currentId
            \/ /\ PlaceOfCurrent # 0 /\ PlaceOfCurrent < Len(filteredEpisodes)
               /\ currentId' = <<filteredEpisodes[PlaceOfCurrent + 1].id>>
       /\ HandlePrev =>
            \/ currentId' = currentId
            \/ /\ PlaceOfCurrent > 1
               /\ currentId' = <<filteredEpisodes[PlaceOfCurrent - 1].id>>
       /\ (HandleNext \/ HandlePrev) =>
            /\ currentId = <<>> => UNCHANGED playbackVars
            /\ PlaceOfCurrent = 0 => currentId' = currentId]_vars

\* the same for handlePrev alone
C19_PrevOnly ==
    [][HandlePrev =>
          /\ \/ currentId' = currentId
             \/ /\ PlaceOfCurrent > 1
                /\ currentId' = <<filteredEpisodes[PlaceOfCurrent - 1].id>>
          /\ currentId = <<>> => UNCHANGED playbackVars
          /\ PlaceOfCurrent = 0 => currentId' = currentId]_vars

\* the page was opened with a playback snapshot that has an id
OpenedWithSnapshot == opened.state # <<>> /\ opened.state[1].id # ""

\* the position the snapshot asks for: five seconds back, not before the start
SnapshotSeek ==
    IF opened.state[1].time > 5 THEN opened.state[1].time - 5 ELSE 0

\* this step is the first loadeddata of the present src
LoadedDataStep == ~audioLoaded /\ audioLoaded'

\* this step makes another episode current, from time 0, playing and loading,
\* with no seek pending
StartsAnother ==
    /\ currentId' # currentId
    /\ currentTime' = 0
    /\ isPlaying'
    /\ isLoadingAudio'
    /\ shouldSeekRef' = <<>>

\* C20: a playback snapshot with an id makes that episode current on load
\* with a pending seek five seconds before the saved time (not below 0); the
\* pending seek is applied at most once, at the first loadeddata, and only
\* to the restored episode; when another episode is selected first, the
\* pending seek is dropped and that episode starts at time 0, playing and
\* loading.
C20_PendingSeek ==
    [][/\ (pc = "mount" /\ OpenedWithSnapshot) =>
            /\ currentId' = <<opened.state[1].id>>
            /\ shouldSeekRef' = <<SnapshotSeek>>
       /\ (pc # "mount" /\ shouldSeekRef = <<>>) => shouldSeekRef' = <<>>
       /\ (pc # "mount" /\ shouldSeekRef # <<>>) =>
            /\ OpenedWithSnapshot
            /\ shouldSeekRef = <<SnapshotSeek>>
            /\ currentId = <<opened.state[1].id>>
            /\ LoadedDataStep =>
                  /\ currentId' = currentId
                  /\ currentTime' = SnapshotSeek
                  /\ shouldSeekRef' = <<>>
            /\ currentId' # currentId => StartsAnother
            /\ shouldSeekRef' # shouldSeekRef => (LoadedDataStep \/ StartsAnother)]_vars

\* the snapshot {id: "a", time: 7} restored and its seek to 2 applied
C20_Witness ==
    /\ pc = "ready"
    /\ opened.state = <<[id |-> "a", time |-> 7]>>
    /\ currentId = <<"a">>
    /\ audioLoaded
    /\ shouldSeekRef = <<>>
    /\ currentTime = 2
    /\ ~isLoadingAudio

============================================================================
